---- MODULE Spec2Model ----
(***************************************************************************)
(* A model of the job recommendation dashboard of Dashboard/               *)
(* recommendation.py: salary parsing, data loading, TF-IDF vectorisation,  *)
(* cosine scoring, salary normalisation, weighted ranking, the skills      *)
(* comparison of a job card, and the page handler that drives them.        *)
(*                                                                         *)
(* Texts are sequences of one-character strings where the code works on    *)
(* characters (parse_salary, display_job_card) and sequences of words      *)
(* where it works on tokens (the vectorizer).  Floating point values are   *)
(* records [nan, val]: val is a fixed-point integer, nan marks IEEE NaN.   *)
(***************************************************************************)
EXTENDS Integers, Sequences, FiniteSets, TLC

VARIABLES
    \* ---- parse_salary applied to one input
    salary_range,        \* the argument of parse_salary
    parsed,              \* its result, or Pending before the call
    \* ---- the skills comparison of display_job_card applied to one pair
    job_text,            \* job['required_skills'], a character sequence
    user_text,           \* user_skills, a character sequence
    compared,            \* [done, matched, missing]
    \* ---- the page (recommendation_page)
    db,                  \* the rows of table job_opportunities
    df,                  \* the frame load_data() returned
    cache,               \* st.cache_resource of get_vectorizer: frames fitted
    skill_weight,        \* slider, in tenths
    salary_weight,       \* slider, in tenths
    selected_location,   \* selectbox
    experience_levels,   \* multiselect
    user_skills,         \* text_input, a word sequence
    pass                 \* what the last run of the script did

parseVars == <<salary_range, parsed>>
cmpVars   == <<job_text, user_text, compared>>
widgetVars == <<skill_weight, salary_weight, selected_location,
                experience_levels, user_skills>>
pageVars  == <<db, df, cache, widgetVars, pass>>
vars      == <<parseVars, cmpVars, pageVars>>

(***************************************************************************)
(* Generic helpers                                                         *)
(***************************************************************************)
Range(s) == {s[i] : i \in 1..Len(s)}

RECURSIVE SeqsUpTo(_, _)
SeqsUpTo(S, n) ==
    IF n = 0 THEN {<<>>}
    ELSE LET shorter == SeqsUpTo(S, n - 1)
         IN  shorter \cup {Append(s, c) : s \in {t \in shorter : Len(t) = n - 1}, c \in S}

\* Python's None / a present value
None    == [some |-> FALSE, val |-> 0]
Some(v) == [some |-> TRUE,  val |-> v]

(***************************************************************************)
(* parse_salary                                                            *)
(***************************************************************************)
MaxSalaryLen == 4
SalaryChars  == {"0", "4", "6", ",", "-"}
Digits       == {"0", "1", "2", "3", "4", "5", "6", "7", "8", "9"}
DigitVal(c)  ==
    CASE c = "0" -> 0 [] c = "1" -> 1 [] c = "2" -> 2 [] c = "3" -> 3
      [] c = "4" -> 4 [] c = "5" -> 5 [] c = "6" -> 6 [] c = "7" -> 7
      [] c = "8" -> 8 [] c = "9" -> 9

\* An argument of parse_salary: a str, or an object without .replace
Str(chars)  == [isStr |-> TRUE, chars |-> chars]
NotAString  == [isStr |-> FALSE, chars |-> <<>>]

\* salary_range.replace(",", "")
RECURSIVE replace_comma(_)
replace_comma(s) ==
    IF s = <<>> THEN <<>>
    ELSE IF Head(s) = "," THEN replace_comma(Tail(s))
         ELSE <<Head(s)>> \o replace_comma(Tail(s))

\* re.findall(r"\d+", s): the maximal digit runs, scanned left to right.
\* cur is the run being read, acc the runs found so far.
RECURSIVE findall_digits(_, _, _)
findall_digits(s, cur, acc) ==
    IF s = <<>> THEN (IF cur = <<>> THEN acc ELSE Append(acc, cur))
    ELSE IF Head(s) \in Digits
         THEN findall_digits(Tail(s), Append(cur, Head(s)), acc)
         ELSE findall_digits(Tail(s), <<>>,
                             IF cur = <<>> THEN acc ELSE Append(acc, cur))

\* int(run) for a run of decimal digits
RECURSIVE int(_)
int(run) ==
    IF run = <<>> THEN 0
    ELSE int(SubSeq(run, 1, Len(run) - 1)) * 10 + DigitVal(run[Len(run)])

parse_salary_first_only(arg) ==
    IF ~arg.isStr THEN <<None, None>>
    ELSE LET match == findall_digits(replace_comma(arg.chars), <<>>, <<>>)
         IN  IF match # <<>>
             THEN <<Some(int(match[1])), Some(int(match[1]))>>
             ELSE <<None, None>>

parse_salary(arg) ==
    IF ~arg.isStr
    THEN <<None, None>>                      \* AttributeError, caught
    ELSE LET match == findall_digits(replace_comma(arg.chars), <<>>, <<>>)
         IN  IF match # <<>>
             THEN <<Some(int(match[1])),
                    IF Len(match) > 1 THEN Some(int(match[Len(match)]))
                                      ELSE Some(int(match[1]))>>
             ELSE <<None, None>>

Pending == [done |-> FALSE, min |-> None, max |-> None]

ParseInputs == {Str(s) : s \in SeqsUpTo(SalaryChars, MaxSalaryLen)} \cup {NotAString}

CallParse ==
    /\ ~parsed.done
    /\ parsed' = [done |-> TRUE,
                  min  |-> parse_salary(salary_range)[1],
                  max  |-> parse_salary(salary_range)[2]]
    /\ UNCHANGED <<salary_range, cmpVars, pageVars>>

(***************************************************************************)
(* display_job_card: the skills comparison                                 *)
(***************************************************************************)
MaxTextLen == 3
CmpChars   == {"a", "A", "b", " ", ","}
Whitespace == {" "}

\* str.lower() on one character
LowerChar(c) == IF c = "A" THEN "a" ELSE IF c = "B" THEN "b" ELSE c

\* text.split(','): the pieces between commas, in order (never empty: "" -> [""])
RECURSIVE split_comma(_, _)
split_comma(s, cur) ==
    IF s = <<>> THEN <<cur>>
    ELSE IF Head(s) = "," THEN <<cur>> \o split_comma(Tail(s), <<>>)
         ELSE split_comma(Tail(s), Append(cur, Head(s)))

\* skill.strip()
RECURSIVE lstrip(_)
lstrip(s) == IF s # <<>> /\ Head(s) \in Whitespace THEN lstrip(Tail(s)) ELSE s

RECURSIVE rstrip(_)
rstrip(s) ==
    IF s # <<>> /\ s[Len(s)] \in Whitespace THEN rstrip(SubSeq(s, 1, Len(s) - 1)) ELSE s

strip(s) == rstrip(lstrip(s))

\* skill.lower()
lower(s) == [i \in 1..Len(s) |-> LowerChar(s[i])]

\* {skill.strip().lower() for skill in text.split(',')}
skill_set_no_lower(text) == {strip(piece) : piece \in Range(split_comma(text, <<>>))}

skill_set(text) == {lower(strip(piece)) : piece \in Range(split_comma(text, <<>>))}

\* lines 112-116: job_skills, user_skills_set, matched, missing
skills_analysis(job_required_skills, user_skills_arg) ==
    LET job_skills      == skill_set(job_required_skills)
        user_skills_set == skill_set(user_skills_arg)
    IN  [done    |-> TRUE,
         matched |-> job_skills \cap user_skills_set,
         missing |-> job_skills \ user_skills_set]

NotCompared == [done |-> FALSE, matched |-> {}, missing |-> {}]

CmpTexts == SeqsUpTo(CmpChars, MaxTextLen)

CallCompare ==
    /\ ~compared.done
    /\ compared' = skills_analysis(job_text, user_text)
    /\ UNCHANGED <<job_text, user_text, parseVars, pageVars>>

(***************************************************************************)
(* Numbers: float64 values as fixed point                                  *)
(***************************************************************************)
\* Scores are kept in thousandths; the slider weights in tenths.
SCALE == 1000
\* Scale of the intermediate values of the logarithm series
LNSCALE == 10000

NaN    == [nan |-> TRUE,  val |-> 0]
Num(x) == [nan |-> FALSE, val |-> x]

\* IEEE comparison: false as soon as one side is NaN
Geq(a, b) == ~a.nan /\ ~b.nan /\ a.val >= b.val

RECURSIVE SumOver(_, _)
SumOver(S, f) ==
    IF S = {} THEN 0
    ELSE LET x == CHOOSE y \in S : TRUE IN f[x] + SumOver(S \ {x}, f)

\* floor(sqrt(x)) by bisection on lo..hi, lo*lo <= x < (hi+1)*(hi+1)
RECURSIVE isqrt_between(_, _, _)
isqrt_between(x, lo, hi) ==
    IF lo >= hi THEN lo
    ELSE LET mid == (lo + hi + 1) \div 2
         IN  IF mid * mid <= x THEN isqrt_between(x, mid, hi)
                               ELSE isqrt_between(x, lo, mid - 1)

isqrt(x) == isqrt_between(x, 0, 46340)

\* ln(num/den) * LNSCALE for num >= den > 0, by the series (every division
\* truncates: the result is within a few units of the last place)
\* ln(x) = 2 * (z + z^3/3 + z^5/5 + ...), z = (x-1)/(x+1)
RECURSIVE ln_series(_, _, _)
ln_series(power, zsq, k) ==
    IF power = 0 THEN 0
    ELSE power \div k + ln_series((power * zsq) \div LNSCALE, zsq, k + 2)

ln_fixed(num, den) ==
    LET z == ((num - den) * LNSCALE) \div (num + den)
    IN  2 * ln_series(z, (z * z) \div LNSCALE, 1)

(***************************************************************************)
(* The job table and load_data                                             *)
(***************************************************************************)
MaxRows == 3

\* A column value of the table: a text, or SQL NULL
Text(x)  == [isStr |-> TRUE, chars |-> x]
NullText == [isStr |-> FALSE, chars |-> <<>>]

\* The rows the table may hold.  required_skills is a word sequence,
\* salary_range a character sequence.
JobPool == {
    [id |-> 1, required_skills |-> Text(<<"python", "sql">>),
     salary_range |-> Text(<<"4","0",",","0","0","0","-","6","0",",","0","0","0">>),
     location |-> "London", experience_level |-> "Junior"],
    [id |-> 2, required_skills |-> Text(<<"java", "spring">>),
     salary_range |-> Text(<<"6","0",",","0","0","0">>),
     location |-> "Leeds", experience_level |-> "Senior"],
    [id |-> 3, required_skills |-> Text(<<"python", "pandas">>),
     salary_range |-> Text(<<"5","0",",","0","0","0">>),
     location |-> "London", experience_level |-> "Senior"],
    [id |-> 4, required_skills |-> Text(<<"java">>),
     salary_range |-> Text(<<"n","/","a">>),
     location |-> "London", experience_level |-> "Junior"],
    [id |-> 5, required_skills |-> Text(<<"c", "and">>),
     salary_range |-> Text(<<"4","0","0","0","0">>),
     location |-> "Leeds", experience_level |-> "Junior"],
    [id |-> 6, required_skills |-> Text(<<"sql">>),
     salary_range |-> NullText,
     location |-> "Leeds", experience_level |-> "Senior"] }

\* Tables: up to MaxRows distinct rows of the pool, in any order
Tables == {t \in SeqsUpTo(JobPool, MaxRows) :
              \A i, j \in 1..Len(t) : i # j => t[i] # t[j]}

\* pandas stores an absent number as NaN
ToFloat(opt) == IF opt.some THEN Num(opt.val) ELSE NaN

\* df.dropna(subset=['required_skills', 'salary_range'])
dropna(rows) ==
    SelectSeq(rows, LAMBDA r : r.required_skills.isStr /\ r.salary_range.isStr)

\* load_data: fetch, dropna, parse every salary_range.  An empty table (or
\* a failing fetch) raises inside the try and yields the empty frame.
load_data(table) ==
    LET kept == dropna(table)
    IN  [i \in 1..Len(kept) |->
            [id |-> kept[i].id,
             required_skills  |-> kept[i].required_skills.chars,
             salary_range     |-> kept[i].salary_range.chars,
             location         |-> kept[i].location,
             experience_level |-> kept[i].experience_level,
             salary_min |-> ToFloat(parse_salary(kept[i].salary_range)[1]),
             salary_max |-> ToFloat(parse_salary(kept[i].salary_range)[2])]]

(***************************************************************************)
(* TfidfVectorizer(stop_words='english') and cosine_similarity             *)
(***************************************************************************)
\* lowercase=True
LowerWord(w) == IF w = "Python" THEN "python" ELSE w
\* token_pattern r"(?u)\b\w\w+\b" keeps words of two characters or more
OneCharWords == {"c"}
\* the words of the English stop list among the model's words
StopWords == {"and"}

\* build_analyzer(): lowercase, tokenize, drop the stop words
build_analyzer(words) ==
    LET lowered == [i \in 1..Len(words) |-> LowerWord(words[i])]
    IN  SelectSeq(lowered, LAMBDA w : w \notin OneCharWords /\ w \notin StopWords)

\* term frequency of t in a text
Tf(words, t) ==
    LET toks == build_analyzer(words)
    IN  Cardinality({i \in 1..Len(toks) : toks[i] = t})

Corpus(frame) == [i \in 1..Len(frame) |-> frame[i].required_skills]

Vocabulary(corpus) ==
    UNION {Range(build_analyzer(corpus[i])) : i \in 1..Len(corpus)}

DocFreq(corpus, t) == Cardinality({i \in 1..Len(corpus) : Tf(corpus[i], t) > 0})

\* the variant without idf weighting (use_idf=False)
IdfFlat(corpus, t) == SCALE

\* smooth_idf: idf(t) = ln((1 + n) / (1 + df(t))) + 1
Idf(corpus, t) ==
    SCALE + (ln_fixed(1 + Len(corpus), 1 + DocFreq(corpus, t)) * SCALE) \div LNSCALE

NoVectorizer == [fitted |-> FALSE, fitted_on |-> <<>>, vocabulary |-> {},
                 idf |-> [t \in {} |-> 0]]

\* TfidfVectorizer(...).fit(corpus); fit raises ValueError (empty
\* vocabulary) when no document holds a token: fitted stays FALSE
fit(corpus) ==
    LET vocab == Vocabulary(corpus)
    IN  IF vocab = {} THEN NoVectorizer
        ELSE [fitted |-> TRUE, fitted_on |-> corpus, vocabulary |-> vocab,
              idf |-> [t \in vocab |-> Idf(corpus, t)]]

\* vectorizer.transform([text])[0] before normalisation: tf * idf per term
transform(vectorizer, words) ==
    [t \in vectorizer.vocabulary |-> Tf(words, t) * vectorizer.idf[t]]

\* cosine_similarity of two rows: x.y / (|x| |y|), and 0 for a zero row
\* (sklearn's normalize leaves a zero row as it is).  The l2 norm that
\* transform applies does not change the cosine.
cosine_similarity(x, y) ==
    LET terms == DOMAIN x
        nx  == isqrt(SumOver(terms, [t \in terms |-> x[t] * x[t]]))
        ny  == isqrt(SumOver(terms, [t \in terms |-> y[t] * y[t]]))
        dot == SumOver(terms, [t \in terms |-> x[t] * y[t]])
    IN  IF nx = 0 \/ ny = 0 THEN 0
        ELSE ((dot \div nx) * SCALE) \div ny

(***************************************************************************)
(* enhanced_recommendations                                                *)
(***************************************************************************)
Max(S) == CHOOSE x \in S : \A y \in S : x >= y
Min(S) == CHOOSE x \in S : \A y \in S : x <= y

\* Series.min() / Series.max() skip NaN and give NaN when nothing is left
SalaryMin(frame) ==
    LET present == {frame[i].salary_min.val : i \in {k \in 1..Len(frame) : ~frame[k].salary_min.nan}}
    IN  IF present = {} THEN NaN ELSE Num(Min(present))

SalaryMax(frame) ==
    LET present == {frame[i].salary_min.val : i \in {k \in 1..Len(frame) : ~frame[k].salary_min.nan}}
    IN  IF present = {} THEN NaN ELSE Num(Max(present))

\* lines 87-88: (salary_min - min) / (max - min); 0/0 and NaN give NaN
salary_score(v, lo, hi) ==
    IF v.nan \/ lo.nan \/ hi.nan THEN NaN
    ELSE IF hi.val = lo.val THEN NaN
    ELSE Num(((v.val - lo.val) * SCALE) \div (hi.val - lo.val))

\* lines 91-92: weights['skills'] * skill + weights['salary'] * salary_score
\* (in units of 1 / (10 * SCALE)); NaN propagates, also under weight 0
match_score(w_skills, w_salary, skill, salary) ==
    IF skill.nan \/ salary.nan THEN NaN
    ELSE Num(w_skills * skill.val + w_salary * salary.val)

\* lines 82-92: the frame with its score columns (skill_score is the
\* array skill_scores, kept beside the row it belongs to)
score_rows(query, frame, vectorizer, w_skills, w_salary) ==
    LET user_vector == transform(vectorizer, query)
        lo == SalaryMin(frame)
        hi == SalaryMax(frame)
    IN  [i \in 1..Len(frame) |->
           LET skill  == Num(cosine_similarity(user_vector,
                                 transform(vectorizer, frame[i].required_skills)))
               salary == salary_score(frame[i].salary_min, lo, hi)
           IN  [id |-> frame[i].id,
                required_skills |-> frame[i].required_skills,
                salary_min   |-> frame[i].salary_min,
                skill_score  |-> skill,
                salary_score |-> salary,
                match_score  |-> match_score(w_skills, w_salary, skill, salary)]]

RowOrders(n) == {p \in [1..n -> 1..n] : \A i, j \in 1..n : i # j => p[i] # p[j]}

\* line 94: df.sort_values('match_score', ascending=False) with the default
\* kind='quicksort' and na_position='last'.  The rows with a NaN key come
\* last in their original order; the others come in non-increasing key
\* order, and numpy's quicksort promises no order among equal keys, so
\* every such arrangement is a possible result.
sort_values(rows) ==
    LET n == Len(rows)
        ok(p) ==
           /\ \A i, j \in 1..n : i < j =>
                 \/ rows[p[j]].match_score.nan /\ ~rows[p[i]].match_score.nan
                 \/ /\ rows[p[i]].match_score.nan
                    /\ rows[p[j]].match_score.nan
                    /\ p[i] < p[j]
                 \/ Geq(rows[p[i]].match_score, rows[p[j]].match_score)
    IN  {[i \in 1..n |-> rows[p[i]]] : p \in {q \in RowOrders(n) : ok(q)}}

\* enhanced_recommendations: the possible returned frames.  With no row,
\* scikit-learn rejects the 0-sample matrix with a ValueError: no result.
enhanced_recommendations(query, frame, vectorizer, w_skills, w_salary) ==
    IF frame = <<>> THEN {}
    ELSE sort_values(score_rows(query, frame, vectorizer, w_skills, w_salary))

(***************************************************************************)
(* recommendation_page                                                     *)
(***************************************************************************)
WeightVals == {0, 3, 7}
Queries == {<<>>, <<"rust">>, <<"python", "pandas">>, <<"Python", "and">>}

\* the selectbox options after "All", and the multiselect options
LocationOptions(frame)   == {frame[i].location : i \in 1..Len(frame)}
ExperienceOptions(frame) == {frame[i].experience_level : i \in 1..Len(frame)}

\* lines 174-178
filter_rows(frame, location, levels) ==
    LET by_location == IF location # "All"
                       THEN SelectSeq(frame, LAMBDA r : r.location = location)
                       ELSE frame
    IN  IF levels # {}
        THEN SelectSeq(by_location, LAMBDA r : r.experience_level \in levels)
        ELSE by_location

\* the variant that fits on the filtered candidates
vectorizer_input_filtered(frame, filtered) == filtered

\* line 180: the frame handed to get_vectorizer
vectorizer_input(frame, filtered) == frame

\* lines 74-77: the fitted vectorizer for a frame
get_vectorizer(frame) == fit(Corpus(frame))

Idle == [outcome |-> "idle", called |-> {}, refit |-> FALSE,
         vectorizer |-> NoVectorizer, filtered_df |-> <<>>,
         recommendations |-> <<>>]

\* lines 141-143: nothing loaded, the page shows a warning and returns
FirstRun(frame) == IF frame = <<>> THEN [Idle EXCEPT !.outcome = "nodata"] ELSE Idle

\* ---- a rerun of the script caused by a widget: no button press, so the
\* ---- previous recommendations are gone
SetSkillWeight(w) ==
    /\ df # <<>> /\ w # skill_weight
    /\ skill_weight' = w
    /\ pass' = Idle
    /\ UNCHANGED <<db, df, cache, salary_weight, selected_location,
                   experience_levels, user_skills, parseVars, cmpVars>>

SetSalaryWeight(w) ==
    /\ df # <<>> /\ w # salary_weight
    /\ salary_weight' = w
    /\ pass' = Idle
    /\ UNCHANGED <<db, df, cache, skill_weight, selected_location,
                   experience_levels, user_skills, parseVars, cmpVars>>

SelectLocation(l) ==
    /\ df # <<>> /\ l # selected_location
    /\ l \in {"All"} \cup LocationOptions(df)
    /\ selected_location' = l
    /\ pass' = Idle
    /\ UNCHANGED <<db, df, cache, skill_weight, salary_weight,
                   experience_levels, user_skills, parseVars, cmpVars>>

SelectExperience(levels) ==
    /\ df # <<>> /\ levels # experience_levels
    /\ levels \subseteq ExperienceOptions(df)
    /\ experience_levels' = levels
    /\ pass' = Idle
    /\ UNCHANGED <<db, df, cache, skill_weight, salary_weight,
                   selected_location, user_skills, parseVars, cmpVars>>

EnterSkills(q) ==
    /\ df # <<>> /\ q # user_skills
    /\ user_skills' = q
    /\ pass' = Idle
    /\ UNCHANGED <<db, df, cache, skill_weight, salary_weight,
                   selected_location, experience_levels, parseVars, cmpVars>>

\* ---- lines 169-189: the button
ClickGetRecommendations ==
    /\ df # <<>>
    /\ IF user_skills = <<>>
       THEN /\ pass' = [Idle EXCEPT !.outcome = "warning"]
            /\ cache' = cache
       ELSE LET filtered_df == filter_rows(df, selected_location, experience_levels)
                key         == vectorizer_input(df, filtered_df)
                vectorizer  == get_vectorizer(key)
                results     == enhanced_recommendations(user_skills, filtered_df,
                                   vectorizer, skill_weight, salary_weight)
            IN  IF ~vectorizer.fitted
                THEN \* fit raised: nothing is cached, the run ends in an error
                     /\ pass' = [Idle EXCEPT !.outcome = "error",
                                             !.called = {"get_vectorizer"},
                                             !.refit = TRUE,
                                             !.filtered_df = filtered_df]
                     /\ cache' = cache
                ELSE /\ cache' = cache \cup {key}
                     /\ IF results = {}
                        THEN pass' = [outcome |-> "error",
                                      called |-> {"get_vectorizer", "enhanced_recommendations"},
                                      refit |-> key \notin cache,
                                      vectorizer |-> vectorizer,
                                      filtered_df |-> filtered_df,
                                      recommendations |-> <<>>]
                        ELSE \E recommendations \in results :
                               pass' = [outcome |-> "ranked",
                                        called |-> {"get_vectorizer", "enhanced_recommendations"},
                                        refit |-> key \notin cache,
                                        vectorizer |-> vectorizer,
                                        filtered_df |-> filtered_df,
                                        recommendations |-> recommendations]
    /\ UNCHANGED <<db, df, widgetVars, parseVars, cmpVars>>

\* ---- st.cache_data(ttl=3600) expired and the table has changed: the next
\* ---- run loads the new table.  A widget whose options changed starts over.
Reload(table) ==
    /\ table # db
    /\ db' = table
    /\ df' = load_data(table)
    /\ selected_location' =
          IF LocationOptions(df') = LocationOptions(df) THEN selected_location ELSE "All"
    /\ experience_levels' =
          IF ExperienceOptions(df') = ExperienceOptions(df) THEN experience_levels ELSE {}
    /\ pass' = FirstRun(df')
    /\ UNCHANGED <<cache, skill_weight, salary_weight, user_skills, parseVars, cmpVars>>

(***************************************************************************)
(* Specifications                                                          *)
(***************************************************************************)
ParseIdle == salary_range = NotAString /\ parsed = Pending
CmpIdle   == job_text = <<>> /\ user_text = <<>> /\ compared = NotCompared
PageIdle  ==
    /\ db = <<>> /\ df = <<>> /\ cache = {}
    /\ skill_weight = 7 /\ salary_weight = 3
    /\ selected_location = "All" /\ experience_levels = {} /\ user_skills = <<>>
    /\ pass = FirstRun(<<>>)

\* The page opened on a table: sliders at 0.7 / 0.3, no filter, no skills
PageOpened(tables) ==
    /\ db \in tables
    /\ df = load_data(db)
    /\ cache = {}
    /\ skill_weight = 7 /\ salary_weight = 3
    /\ selected_location = "All" /\ experience_levels = {} /\ user_skills = <<>>
    /\ pass = FirstRun(df)

WidgetStep ==
    \/ \E w \in WeightVals : SetSkillWeight(w)
    \/ \E w \in WeightVals : SetSalaryWeight(w)
    \/ \E l \in {"All", "London", "Leeds"} : SelectLocation(l)
    \/ \E levels \in SUBSET {"Junior", "Senior"} : SelectExperience(levels)
    \/ \E q \in Queries : EnterSkills(q)

\* The page over any table, loaded once
Init == PageOpened(Tables) /\ ParseIdle /\ CmpIdle
Next == WidgetStep \/ ClickGetRecommendations
Spec == Init /\ [][Next]_vars

\* The page over a table that changes between three snapshots
Job(i) == CHOOSE r \in JobPool : r.id = i
Snapshots == { <<Job(1), Job(2), Job(3)>>, <<Job(5)>>, <<Job(2), Job(4), Job(1)>> }
InitSnapshots == PageOpened({<<Job(1), Job(2), Job(3)>>}) /\ ParseIdle /\ CmpIdle
NextSnapshots ==
    \/ WidgetStep
    \/ ClickGetRecommendations
    \/ \E table \in Snapshots : Reload(table)
SpecSnapshots == InitSnapshots /\ [][NextSnapshots]_vars

\* parse_salary on every bounded input
InitParse == salary_range \in ParseInputs /\ parsed = Pending /\ CmpIdle /\ PageIdle
SpecParse == InitParse /\ [][CallParse]_vars

\* the skills comparison on every bounded pair of texts
InitCompare ==
    /\ job_text \in CmpTexts /\ user_text \in CmpTexts /\ compared = NotCompared
    /\ ParseIdle /\ PageIdle
SpecCompare == InitCompare /\ [][CallCompare]_vars

(***************************************************************************)
(* Properties                                                              *)
(***************************************************************************)
Scored  == pass.outcome = "ranked"
Clicked == pass.outcome \in {"warning", "error", "ranked"}
Recs    == pass.recommendations
Handed  == pass.filtered_df

\* C1: every row handed to enhanced_recommendations has a salary_range that
\* parse_salary could parse and a non-null salary_min.
C1_UnparsedExcluded ==
    "enhanced_recommendations" \in pass.called =>
        \A i \in 1..Len(Handed) :
            /\ parse_salary(Text(Handed[i].salary_range))[1].some
            /\ ~Handed[i].salary_min.nan

\* C2: when all salary_min of the scored rows are equal (a single row
\* included), every salary_score is the constant 0.5 and no score is NaN.
C2_EqualSalariesHalf ==
    (Scored /\ \A i, j \in 1..Len(Handed) :
                   /\ ~Handed[i].salary_min.nan
                   /\ Handed[i].salary_min = Handed[j].salary_min)
    => \A i \in 1..Len(Recs) :
           /\ Recs[i].salary_score = Num(SCALE \div 2)
           /\ ~Recs[i].match_score.nan

\* position of the row with identifier id in the frame handed to the pass
PositionOf(id) == CHOOSE i \in 1..Len(Handed) : Handed[i].id = id

\* C3: the returned rows are a permutation of the rows handed in, in
\* non-increasing order of match_score = w_skills * skill_score +
\* w_salary * salary_score, rows of equal match_score in their input order.
C3_SortedStablePermutation ==
    Scored =>
        /\ Len(Recs) = Len(Handed)
        /\ {Recs[i].id : i \in 1..Len(Recs)} = {Handed[i].id : i \in 1..Len(Handed)}
        /\ \A i \in 1..Len(Recs) :
              Recs[i].match_score =
                  Num(skill_weight * Recs[i].skill_score.val
                      + salary_weight * Recs[i].salary_score.val)
        /\ \A i, j \in 1..Len(Recs) : i < j =>
              /\ Geq(Recs[i].match_score, Recs[j].match_score)
              /\ Recs[i].match_score = Recs[j].match_score
                     => PositionOf(Recs[i].id) < PositionOf(Recs[j].id)

\* the maximal digit runs of a text, by position
RunStarts(t) == {i \in 1..Len(t) : t[i] \in Digits /\ (i = 1 \/ t[i - 1] \notin Digits)}
RunEnd(t, i) == CHOOSE j \in i..Len(t) :
                   /\ \A k \in i..j : t[k] \in Digits
                   /\ j = Len(t) \/ t[j + 1] \notin Digits
RECURSIVE Pow10(_)
Pow10(n) == IF n = 0 THEN 1 ELSE 10 * Pow10(n - 1)
RunValue(t, i) ==
    LET j == RunEnd(t, i)
    IN  SumOver(i..j, [k \in i..j |-> DigitVal(t[k]) * Pow10(j - k)])

Scenario ==
    /\ df = load_data(<<Job(1), Job(2), Job(3)>>)
    /\ [i \in 1..3 |-> df[i].salary_min] = <<Num(40000), Num(60000), Num(50000)>>
    /\ user_skills = <<"python", "pandas">>
    /\ skill_weight = 7 /\ salary_weight = 3
    /\ selected_location = "All" /\ experience_levels = {}
    /\ Scored

RankedIds == [i \in 1..Len(Recs) |-> Recs[i].id]

\* C5 as stated: the scenario ranks posting 3 first, posting 1 second and
\* posting 2 last.
C5_Ranking312 == Scenario => RankedIds = <<3, 1, 2>>

\* C5 amended: the scenario ranks posting 3 first, posting 2 second
\* (0.3 * 1.0 = 0.30) and posting 1 last (0.7 * 0.366 + 0.3 * 0 = 0.26).
C5_Ranking321 == Scenario => RankedIds = <<3, 2, 1>>

C5_Witness ==
    /\ Scenario
    /\ Recs[1].skill_score.val >= SCALE - 1
    /\ Recs[2].match_score.val = 3 * SCALE
    /\ Recs[3].match_score.val < 3 * SCALE

\* a query none of whose tokens is in the vocabulary fitted on the frame
OutOfVocabulary(query, frame) ==
    Range(build_analyzer(query)) \cap Vocabulary(Corpus(frame)) = {}

\* C6: a submitted query that is empty or wholly out of vocabulary is
\* scored all the same: the pass ends with a ranking, every skill score is
\* 0, and under a positive salary weight the rows come by descending
\* salary_min.
C6_OutOfVocabularyRanked ==
    (Clicked /\ OutOfVocabulary(user_skills, df)) =>
        /\ Scored
        /\ \A i \in 1..Len(Recs) : Recs[i].skill_score = Num(0)
        /\ salary_weight > 0 =>
              \A i, j \in 1..Len(Recs) : i < j =>
                  Geq(Recs[i].salary_min, Recs[j].salary_min)

\* C7: when the largest salary_min of the scored rows exceeds the
\* smallest, every salary_score is (v - min) / (max - min), lies in [0, 1],
\* is 1 for the largest salary_min and 0 for the smallest.
C7_MinMaxScaling ==
    (Scored /\ ~SalaryMin(Handed).nan /\ SalaryMax(Handed).val > SalaryMin(Handed).val)
    => LET lo == SalaryMin(Handed).val
           hi == SalaryMax(Handed).val
       IN  \A i \in 1..Len(Recs) :
              /\ ~Recs[i].salary_score.nan
              /\ Recs[i].salary_score.val
                    = ((Recs[i].salary_min.val - lo) * SCALE) \div (hi - lo)
              /\ Recs[i].salary_score.val \in 0..SCALE
              /\ Recs[i].salary_min.val = hi => Recs[i].salary_score.val = SCALE
              /\ Recs[i].salary_min.val = lo => Recs[i].salary_score.val = 0

\* the tokens of a comma separated text, by position: the pieces between
\* consecutive commas, without their outer whitespace, in lower case
Cuts(s) == {0, Len(s) + 1} \cup {i \in 1..Len(s) : s[i] = ","}
Pieces(s) == {SubSeq(s, a + 1, b - 1) :
                 <<a, b>> \in {c \in Cuts(s) \X Cuts(s) :
                                  c[1] < c[2] /\ \A k \in Cuts(s) : ~(c[1] < k /\ k < c[2])}}
Trimmed(p) ==
    LET inked == {i \in 1..Len(p) : p[i] \notin Whitespace}
    IN  IF inked = {} THEN <<>> ELSE SubSeq(p, Min(inked), Max(inked))
Tokens(s) == {[i \in 1..Len(Trimmed(p)) |-> LowerChar(Trimmed(p)[i])] : p \in Pieces(s)}

\* C8: matched is the job tokens that are user tokens, missing the job
\* tokens that are not; they are disjoint, together the job tokens, and
\* matched lies within the user tokens ("A,b" against "a": {a} and {b}).
C8_MatchedMissing ==
    compared.done =>
        /\ compared.matched = {t \in Tokens(job_text) : t \in Tokens(user_text)}
        /\ compared.missing = {t \in Tokens(job_text) : t \notin Tokens(user_text)}
        /\ compared.matched \cap compared.missing = {}
        /\ compared.matched \cup compared.missing = Tokens(job_text)
        /\ compared.matched \subseteq Tokens(user_text)

C8_Witness ==
    /\ compared.done
    /\ job_text = <<"A", ",", "b">> /\ user_text = <<" ", "a">>
    /\ compared.matched = {<<"a">>} /\ compared.missing = {<<"b">>}

\* C9 as stated: the vectorizer used by a pass was fitted on the candidate
\* rows that remain after the location and experience filters.
C9_FittedOnCandidates ==
    pass.vectorizer.fitted => pass.vectorizer.fitted_on = Corpus(Handed)

\* C9 amended: the vectorizer used by a pass was fitted on the whole loaded
\* frame; a pass fits exactly when that frame was never fitted before, the
\* cache only grows, and only by the frame of such a pass: no change of a
\* filter or of the query causes a fit.
C9_FittedOnLoadedFrame ==
    [][ /\ cache \subseteq cache'
        /\ cache' # cache => cache' = cache \cup {df} /\ pass'.refit
        /\ pass'.vectorizer.fitted =>
              /\ pass'.vectorizer.fitted_on = Corpus(df')
              /\ pass'.vectorizer = fit(Corpus(df'))
              /\ df' \in cache'
              /\ pass' # pass => (pass'.refit <=> df \notin cache)
      ]_vars

C9_Witness ==
    /\ Scored
    /\ selected_location = "London"
    /\ Len(Handed) < Len(df)
    /\ user_skills = <<"rust">>
    /\ ~pass.refit
    /\ Cardinality(cache) = 2

\* C10: when no row remains after the filters, the page calls neither
\* get_vectorizer nor enhanced_recommendations and no scoring error shows.
C10_EmptyNeverScored ==
    filter_rows(df, selected_location, experience_levels) = <<>> =>
        /\ pass.called = {}
        /\ pass.outcome # "error"

====
